---- MODULE Spec2Model ----
(***************************************************************************)
(* A model of the Monkey interpreter: the lexer (lexer/lexer.go), the      *)
(* Pratt parser (src/parser/parser.go) and the evaluator                   *)
(* (src/evaluator/evaluator.go).                                           *)
(*                                                                         *)
(* Source bytes are numbers 0..255, a Go string is a sequence of bytes.    *)
(* The parser reads a stream of tokens whose literals are strings.         *)
(***************************************************************************)
EXTENDS Integers, Sequences, FiniteSets, TLC

VARIABLES
    \* lexer.Lexer
    input, position, readPosition, ch,
    \* the tokens NextToken has returned so far, oldest first
    emitted,
    \* the token stream behind parser.Parser.l, and how many were taken from it
    tokens, lpos,
    \* parser.Parser
    curToken, peekToken, errors,
    \* ast.Program.Statements under construction and the position in
    \* ParseProgram
    statements, pc,
    \* the outcome of evaluator.Eval on the parsed Program
    result,
    \* repl.Start: the lines its scanner has yet to return, the strings
    \* written to out, its environment, and what it did with each line
    scanner, out, env, handled,
    \* the object.Environment values allocated, oldest first, and what the
    \* last Get returned
    environments, got

lexVars == <<input, position, readPosition, ch, emitted>>
parserVars == <<tokens, lpos, curToken, peekToken, errors, statements, pc>>
replVars == <<scanner, out, env, handled>>
envVars == <<environments, got>>
vars == <<input, position, readPosition, ch, emitted, tokens, lpos, curToken,
          peekToken, errors, statements, pc, result, scanner, out, env, handled,
          environments, got>>

(***************************************************************************)
(* Bounds                                                                  *)
(***************************************************************************)
\* longest source text given to the lexer
MaxInputLen == 3
\* NextToken calls made after the lexer could have reached the end
ExtraCalls == 2
\* most binary operators in an enumerated operator expression
MaxBinOps == 2
\* most tokens in an enumerated sequence of statement tokens
MaxStmtToks == 4
\* most statements in an enumerated program of let statements
MaxLets == 2
\* most tokens in a source of the runs checked for termination
MaxFairToks == 2
\* largest magnitude of an operand of an enumerated division
MaxOperand == 7
\* deepest nesting of an enumerated expression tree
MaxAstDepth == 1

(***************************************************************************)
(* token/token.go                                                          *)
(***************************************************************************)
ILLEGAL == "ILLEGAL"
EOF == "EOF"
IDENT == "IDENT"
INT == "INT"
STRING_ == "STRING"
ASSIGN == "="
PLUS == "+"
MINUS == "-"
BANG == "!"
ASTERISK == "*"
SLASH == "/"
EQ == "=="
NOT_EQ == "!="
LT == "<"
GT == ">"
COMMA == ","
SEMICOLON == ";"
LPAREN == "("
RPAREN == ")"
LBRACE == "{"
RBRACE == "}"
FUNCTION == "FUNCTION"
LET_ == "LET"
TRUE_ == "TRUE"
FALSE_ == "FALSE"
IF_ == "IF"
ELSE_ == "ELSE"
RETURN == "RETURN"

Token(type, literal) == [Type |-> type, Literal |-> literal]

(***************************************************************************)
(* lexer/lexer.go: bytes                                                   *)
(***************************************************************************)
\* the bytes of "fn" and "let", the keywords of the lexer's token package
KeywordFn == <<102, 110>>
KeywordLet == <<108, 101, 116>>

LookupIdent(ident) ==
    IF ident = KeywordFn THEN FUNCTION
    ELSE IF ident = KeywordLet THEN LET_
    ELSE IDENT

\* 'a' <= ch && ch <= 'z' || 'A' <= ch && ch <= 'Z' || ch == '_'
isLetter(c) == (97 <= c /\ c <= 122) \/ (65 <= c /\ c <= 90) \/ c = 95

\* '0' <= ch && ch <= '9'
isDigit(c) == 48 <= c /\ c <= 57

\* Go's string(ch) of a byte: the UTF-8 encoding of the code point ch
GoStringOfByte(c) ==
    IF c < 128 THEN <<c>> ELSE <<192 + (c \div 64), 128 + (c % 64)>>

newToken(tokenType, c) == Token(tokenType, GoStringOfByte(c))

\* the lexer as a record
Lexer == [input |-> input, position |-> position,
          readPosition |-> readPosition, ch |-> ch]

readChar(l) ==
    [l EXCEPT !.ch = IF l.readPosition >= Len(l.input) THEN 0
                     ELSE l.input[l.readPosition + 1],
              !.position = l.readPosition,
              !.readPosition = l.readPosition + 1]

\* lexer.New: the record after the first readChar
New(in) == readChar([input |-> in, position |-> 0, readPosition |-> 0, ch |-> 0])

RECURSIVE skipWhitespace(_)
skipWhitespace(l) ==
    IF l.ch = 32 \/ l.ch = 9 \/ l.ch = 10 \/ l.ch = 13
    THEN skipWhitespace(readChar(l))
    ELSE l

\* the loop of readIdentifier: the lexer after the run of letters
RECURSIVE skipLetters(_)
skipLetters(l) == IF isLetter(l.ch) THEN skipLetters(readChar(l)) ELSE l

\* the loop of readNumber: the lexer after the run of digits
RECURSIVE skipDigits(_)
skipDigits(l) == IF isDigit(l.ch) THEN skipDigits(readChar(l)) ELSE l

\* l.input[position:l.position], with the lexer left after the run
readIdentifier(l) ==
    LET after == skipLetters(l)
    IN  [l |-> after, s |-> SubSeq(l.input, l.position + 1, after.position)]

readNumber(l) ==
    LET after == skipDigits(l)
    IN  [l |-> after, s |-> SubSeq(l.input, l.position + 1, after.position)]

\* the single-character tokens of NextToken's switch, by byte
SingleCharToken(c) ==
    CASE c = 61 -> ASSIGN
      [] c = 59 -> SEMICOLON
      [] c = 40 -> LPAREN
      [] c = 41 -> RPAREN
      [] c = 44 -> COMMA
      [] c = 43 -> PLUS
      [] c = 123 -> LBRACE
      [] c = 125 -> RBRACE
      [] OTHER -> ILLEGAL

\* NextToken without the readChar that ends it
NextToken_NoAdvance(l) ==
    LET l1 == skipWhitespace(l)
    IN  IF l1.ch = 0
        THEN [tok |-> Token(EOF, <<>>), l |-> l1]
        ELSE IF isLetter(l1.ch)
        THEN LET r == readIdentifier(l1)
             IN  [tok |-> Token(LookupIdent(r.s), r.s), l |-> r.l]
        ELSE IF isDigit(l1.ch)
        THEN LET r == readNumber(l1)
             IN  [tok |-> Token(INT, r.s), l |-> r.l]
        ELSE [tok |-> newToken(SingleCharToken(l1.ch), l1.ch), l |-> l1]

\* NextToken with the closing readChar after an identifier or a number too
NextToken_AlwaysAdvance(l) ==
    LET l1 == skipWhitespace(l)
    IN  IF l1.ch = 0
        THEN [tok |-> Token(EOF, <<>>), l |-> readChar(l1)]
        ELSE IF SingleCharToken(l1.ch) # ILLEGAL
        THEN [tok |-> newToken(SingleCharToken(l1.ch), l1.ch), l |-> readChar(l1)]
        ELSE IF isLetter(l1.ch)
        THEN LET r == readIdentifier(l1)
             IN  [tok |-> Token(LookupIdent(r.s), r.s), l |-> readChar(r.l)]
        ELSE IF isDigit(l1.ch)
        THEN LET r == readNumber(l1)
             IN  [tok |-> Token(INT, r.s), l |-> readChar(r.l)]
        ELSE [tok |-> newToken(ILLEGAL, l1.ch), l |-> readChar(l1)]

\* Lexer.NextToken: the token returned and the lexer afterwards
NextToken(l) ==
    LET l1 == skipWhitespace(l)
    IN  IF l1.ch = 0
        THEN [tok |-> Token(EOF, <<>>), l |-> readChar(l1)]
        ELSE IF SingleCharToken(l1.ch) # ILLEGAL
        THEN [tok |-> newToken(SingleCharToken(l1.ch), l1.ch), l |-> readChar(l1)]
        ELSE IF isLetter(l1.ch)
        THEN LET r == readIdentifier(l1)
             IN  [tok |-> Token(LookupIdent(r.s), r.s), l |-> r.l]
        ELSE IF isDigit(l1.ch)
        THEN LET r == readNumber(l1)
             IN  [tok |-> Token(INT, r.s), l |-> r.l]
        ELSE [tok |-> newToken(ILLEGAL, l1.ch), l |-> readChar(l1)]

(***************************************************************************)
(* src/ast/ast.go: nodes are records; an absent (nil) interface value is   *)
(* NilNode, a nil *LetStatement stored in a Statement interface is         *)
(* NilLetStatement.                                                        *)
(***************************************************************************)
NilNode == [node |-> "nil"]
NilLetStatement == [node |-> "LetStatement", nilptr |-> TRUE]

Identifier(tok) == [node |-> "Identifier", Token |-> tok, Value |-> tok.Literal]

LetStatement(tok, name, value) ==
    [node |-> "LetStatement", nilptr |-> FALSE, Token |-> tok, Name |-> name,
     Value |-> value]

ReturnStatement(tok, value) ==
    [node |-> "ReturnStatement", nilptr |-> FALSE, Token |-> tok,
     ReturnValue |-> value]

ExpressionStatement(tok, e) ==
    [node |-> "ExpressionStatement", nilptr |-> FALSE, Token |-> tok,
     Expression |-> e]

\* whether rendering the node dereferences a nil pointer
RECURSIVE StringPanics(_)
RECURSIVE SeqStringPanics(_)
StringPanics(n) ==
    CASE n.node = "nil" -> TRUE
      [] n.node = "LetStatement" ->
            n.nilptr \/ StringPanics(n.Name)
                     \/ (n.Value # NilNode /\ StringPanics(n.Value))
      [] n.node = "ReturnStatement" ->
            n.ReturnValue # NilNode /\ StringPanics(n.ReturnValue)
      [] n.node = "ExpressionStatement" ->
            n.Expression # NilNode /\ StringPanics(n.Expression)
      [] n.node = "PrefixExpression" -> StringPanics(n.Right)
      [] n.node = "InfixExpression" -> StringPanics(n.Left) \/ StringPanics(n.Right)
      [] n.node = "IfExpression" ->
            \/ StringPanics(n.Condition)
            \/ StringPanics(n.Consequence)
            \/ (n.Alternative # NilNode /\ StringPanics(n.Alternative))
      [] n.node = "BlockStatement" -> SeqStringPanics(n.Statements)
      [] n.node = "FunctionLiteral" -> StringPanics(n.Body)
      [] OTHER -> FALSE

SeqStringPanics(ss) ==
    ss # <<>> /\ (StringPanics(Head(ss)) \/ SeqStringPanics(Tail(ss)))

\* Node.String(), for a node whose rendering does not panic
RECURSIVE String(_)
RECURSIVE ProgramString(_)
RECURSIVE JoinParams(_)
\* strings.Join(params, ", ") over the parameters' String()
JoinParams(ids) ==
    IF ids = <<>> THEN ""
    ELSE IF Len(ids) = 1 THEN ids[1].Value
    ELSE ids[1].Value \o ", " \o JoinParams(Tail(ids))

String(n) ==
    CASE n.node = "LetStatement" ->
            n.Token.Literal \o " " \o String(n.Name) \o " = "
                \o (IF n.Value # NilNode THEN String(n.Value) ELSE "") \o ";"
      [] n.node = "ReturnStatement" ->
            n.Token.Literal \o " "
                \o (IF n.ReturnValue # NilNode THEN String(n.ReturnValue) ELSE "")
                \o ";"
      [] n.node = "ExpressionStatement" ->
            IF n.Expression # NilNode THEN String(n.Expression) ELSE ""
      [] n.node = "Identifier" -> n.Value
      [] n.node = "IntegerLiteral" -> n.Token.Literal
      [] n.node = "Boolean" -> n.Token.Literal
      [] n.node = "PrefixExpression" ->
            "(" \o n.Operator \o String(n.Right) \o ")"
      [] n.node = "InfixExpression" ->
            "(" \o String(n.Left) \o " " \o n.Operator \o " " \o String(n.Right) \o ")"
      [] n.node = "IfExpression" ->
            "if" \o String(n.Condition) \o " " \o String(n.Consequence)
                \o (IF n.Alternative # NilNode
                    THEN "else " \o String(n.Alternative) ELSE "")
      [] n.node = "BlockStatement" -> ProgramString(n.Statements)
      [] n.node = "FunctionLiteral" ->
            n.Token.Literal \o "(" \o JoinParams(n.Parameters) \o ") "
                \o String(n.Body)

\* Program.String()
ProgramString(ss) ==
    IF ss = <<>> THEN "" ELSE String(Head(ss)) \o ProgramString(Tail(ss))

(***************************************************************************)
(* src/parser/parser.go                                                    *)
(***************************************************************************)
LOWEST == 1
EQUALS == 2
LESSGREATER == 3
SUM == 4
PRODUCT == 5
PREFIX == 6
CALL == 7

precedences(t) ==
    CASE t = EQ -> EQUALS
      [] t = NOT_EQ -> EQUALS
      [] t = LT -> LESSGREATER
      [] t = GT -> LESSGREATER
      [] t = PLUS -> SUM
      [] t = MINUS -> SUM
      [] t = SLASH -> PRODUCT
      [] t = ASTERISK -> PRODUCT
      [] t = LPAREN -> CALL
      [] OTHER -> 0

\* the token kinds New registers a prefix / an infix parse function for
prefixParseFns ==
    {IDENT, INT, BANG, MINUS, TRUE_, FALSE_, LPAREN, IF_, FUNCTION}
infixParseFns ==
    {PLUS, MINUS, SLASH, ASTERISK, EQ, NOT_EQ, LT, GT, LPAREN}

\* the token p.l.NextToken() returns when i tokens were taken before:
\* the tokens of the source in order, then EOF for ever
LexerToken(i) == IF i < Len(tokens) THEN tokens[i + 1] ELSE Token(EOF, "")

\* the parser as a record; spin names the loop the parser can never leave
\* once it is in it ("" while it is in none)
Parser ==
    [cur |-> curToken, peek |-> peekToken, lpos |-> lpos, errors |-> errors,
     spin |-> ""]

\* nextToken that drops the token the lexer returns and takes the one after
nextToken_SkipsOne(p) ==
    IF p.spin # "" THEN p
    ELSE [p EXCEPT !.cur = p.peek,
                   !.peek = LexerToken(p.lpos + 1),
                   !.lpos = IF p.lpos < Len(tokens) + 1 THEN p.lpos + 1 ELSE p.lpos]

\* Parser.nextToken; the count of tokens taken stops at "all of them"
nextToken(p) ==
    IF p.spin # "" THEN p
    ELSE [p EXCEPT !.cur = p.peek,
                   !.peek = LexerToken(p.lpos),
                   !.lpos = IF p.lpos < Len(tokens) + 1 THEN p.lpos + 1 ELSE p.lpos]

\* the message is not recorded
addError_Dropped(p, msg) == p

addError(p, msg) ==
    IF p.spin # "" THEN p ELSE [p EXCEPT !.errors = Append(p.errors, msg)]

curTokenIs(p, t) == p.cur.Type = t
peekTokenIs(p, t) == p.peek.Type = t

peekError_CurType(p, t) ==
    addError(p, "expected next token to be " \o t \o ", got " \o p.cur.Type
                    \o " instead")

peekError(p, t) ==
    addError(p, "expected next token to be " \o t \o ", got " \o p.peek.Type
                    \o " instead")

\* Parser.expectPeek: the parser afterwards and the value returned
expectPeek(p, t) ==
    IF peekTokenIs(p, t)
    THEN [p |-> nextToken(p), ok |-> TRUE]
    ELSE [p |-> peekError(p, t), ok |-> FALSE]

\* nothing is recorded
noPrefixParseFnError_Silent(p, t) == p

noPrefixParseFnError(p, t) ==
    addError(p, "no prefix parse function for " \o t \o " found")

peekPrecedence(p) ==
    IF precedences(p.peek.Type) # 0 THEN precedences(p.peek.Type) ELSE LOWEST

curPrecedence(p) ==
    IF precedences(p.cur.Type) # 0 THEN precedences(p.cur.Type) ELSE LOWEST

\* the value of a decimal digit character, -1 for any other character
DigitValue(c) ==
    CASE c = "0" -> 0 [] c = "1" -> 1 [] c = "2" -> 2 [] c = "3" -> 3
      [] c = "4" -> 4 [] c = "5" -> 5 [] c = "6" -> 6 [] c = "7" -> 7
      [] c = "8" -> 8 [] c = "9" -> 9 [] OTHER -> -1

\* the digits of s read in the given base, -1 if one is not of that base
RECURSIVE DigitsValue(_, _, _)
DigitsValue(s, base, acc) ==
    IF Len(s) = 0 THEN acc
    ELSE LET d == DigitValue(SubSeq(s, 1, 1))
         IN  IF d < 0 \/ d >= base THEN -1
             ELSE DigitsValue(SubSeq(s, 2, Len(s)), base, acc * base + d)

\* strconv.ParseInt(s, 0, 64) on a run of digits: base 0 reads a leading
\* "0" as the octal prefix
ParseInt(s) ==
    LET octal == Len(s) > 1 /\ SubSeq(s, 1, 1) = "0"
        v == IF Len(s) = 0 THEN -1
             ELSE IF octal THEN DigitsValue(SubSeq(s, 2, Len(s)), 8, 0)
             ELSE DigitsValue(s, 10, 0)
    IN  [ok |-> v >= 0, value |-> v]

\* Parse functions take the parser record p and return the parser
\* afterwards with the node built: [p, e] for an expression, [p, s] for a
\* statement.
RECURSIVE parseExpression(_, _)
RECURSIVE infixLoop(_, _)
RECURSIVE parseStatement(_)
RECURSIVE blockLoop(_, _)
RECURSIVE blockAppend(_, _)
RECURSIVE skipToSemicolon(_, _)
RECURSIVE identifierLoop(_, _)
RECURSIVE argumentLoop(_, _)

\* an absent expression
Absent(p) == [p |-> p, e |-> NilNode]

\* for !p.curTokenIs(token.SEMICOLON) { p.nextToken() }: once the current
\* token is EOF every later token is EOF and the loop never ends
skipToSemicolon(p, loop) ==
    IF p.spin # "" \/ curTokenIs(p, SEMICOLON) THEN p
    ELSE IF curTokenIs(p, EOF) /\ peekTokenIs(p, EOF) /\ p.lpos >= Len(tokens)
    THEN [p EXCEPT !.spin = loop]
    ELSE skipToSemicolon(nextToken(p), loop)

LetName_FromPeek(p) == Identifier(p.peek)

\* &ast.Identifier{Token: p.curToken, Value: p.curToken.Literal}
LetName(p) == Identifier(p.cur)

parseLetStatement(p) ==
    LET r1 == expectPeek(p, IDENT)
        r2 == expectPeek(r1.p, ASSIGN)
    IN  IF ~r1.ok THEN [p |-> r1.p, s |-> NilLetStatement]
        ELSE IF ~r2.ok THEN [p |-> r2.p, s |-> NilLetStatement]
        ELSE [p |-> skipToSemicolon(r2.p, "letSkip"),
              s |-> LetStatement(p.cur, LetName(r1.p), NilNode)]

parseReturnStatement(p) ==
    [p |-> skipToSemicolon(nextToken(p), "returnSkip"),
     s |-> ReturnStatement(p.cur, NilNode)]

\* the end of parseExpressionStatement, r the expression parsed
expressionStatementEnd(tok, r) ==
    [p |-> IF peekTokenIs(r.p, SEMICOLON) THEN nextToken(r.p) ELSE r.p,
     s |-> ExpressionStatement(tok, r.e)]

parseExpressionStatement(p) ==
    expressionStatementEnd(p.cur, parseExpression(p, LOWEST))

parseStatement(p) ==
    IF p.cur.Type = LET_ THEN parseLetStatement(p)
    ELSE IF p.cur.Type = RETURN THEN parseReturnStatement(p)
    ELSE parseExpressionStatement(p)

parseIdentifier(p) == [p |-> p, e |-> Identifier(p.cur)]

parseIntegerLiteral(p) ==
    LET v == ParseInt(p.cur.Literal)
    IN  IF ~v.ok
        THEN Absent(addError(p, "could not parse \"" \o p.cur.Literal
                                    \o "\" as integer"))
        ELSE [p |-> p,
              e |-> [node |-> "IntegerLiteral", Token |-> p.cur, Value |-> v.value]]

parseBoolean(p) ==
    [p |-> p,
     e |-> [node |-> "Boolean", Token |-> p.cur, Value |-> curTokenIs(p, TRUE_)]]

\* expression.Right = <the expression r>
setRight(expression, r) == [p |-> r.p, e |-> [expression EXCEPT !.Right = r.e]]

parsePrefixExpression(p) ==
    setRight([node |-> "PrefixExpression", Token |-> p.cur,
              Operator |-> p.cur.Literal, Right |-> NilNode],
             parseExpression(nextToken(p), PREFIX))

parseInfixExpression_Lowest(p, left) ==
    setRight([node |-> "InfixExpression", Token |-> p.cur, Left |-> left,
              Operator |-> p.cur.Literal, Right |-> NilNode],
             parseExpression(nextToken(p), LOWEST))

parseInfixExpression(p, left) ==
    setRight([node |-> "InfixExpression", Token |-> p.cur, Left |-> left,
              Operator |-> p.cur.Literal, Right |-> NilNode],
             parseExpression(nextToken(p), curPrecedence(p)))

\* the end of parseGroupedExpression, r the expression parsed
groupedEnd(r) ==
    LET x == expectPeek(r.p, RPAREN)
    IN  IF x.ok THEN [p |-> x.p, e |-> r.e] ELSE Absent(x.p)

parseGroupedExpression(p) == groupedEnd(parseExpression(nextToken(p), LOWEST))

\* the loop of parseBlockStatement: ss the statements appended so far
blockLoop(p, ss) ==
    IF p.spin # "" \/ curTokenIs(p, RBRACE) \/ curTokenIs(p, EOF)
    THEN [p |-> p, ss |-> ss]
    ELSE blockAppend(parseStatement(p), ss)

blockAppend(r, ss) ==
    blockLoop(nextToken(r.p), IF r.s # NilNode THEN Append(ss, r.s) ELSE ss)

blockNode(tok, r) ==
    [p |-> r.p, e |-> [node |-> "BlockStatement", Token |-> tok,
                       Statements |-> r.ss]]

parseBlockStatement(p) == blockNode(p.cur, blockLoop(nextToken(p), <<>>))

IfExpression(tok, c, cons, alt) ==
    [node |-> "IfExpression", Token |-> tok, Condition |-> c,
     Consequence |-> cons, Alternative |-> alt]

\* parseIfExpression after the else block alt
ifEnd(tok, c, cons, alt) ==
    [p |-> alt.p, e |-> IfExpression(tok, c.e, cons.e, alt.e)]

\* parseIfExpression after the consequence cons
ifAlternative(tok, c, cons) ==
    LET x == expectPeek(nextToken(cons.p), LBRACE)
    IN  IF ~peekTokenIs(cons.p, ELSE_)
        THEN [p |-> cons.p, e |-> IfExpression(tok, c.e, cons.e, NilNode)]
        ELSE IF ~x.ok THEN Absent(x.p)
        ELSE ifEnd(tok, c, cons, parseBlockStatement(x.p))

\* parseIfExpression after the condition c
ifConsequence(tok, c) ==
    LET x2 == expectPeek(c.p, RPAREN)
        x3 == expectPeek(x2.p, LBRACE)
    IN  IF ~x2.ok THEN Absent(x2.p)
        ELSE IF ~x3.ok THEN Absent(x3.p)
        ELSE ifAlternative(tok, c, parseBlockStatement(x3.p))

parseIfExpression(p) ==
    LET x1 == expectPeek(p, LPAREN)
    IN  IF ~x1.ok THEN Absent(x1.p)
        ELSE ifConsequence(p.cur, parseExpression(nextToken(x1.p), LOWEST))

\* for p.peekTokenIs(token.COMMA) in parseFunctionParameters
identifierLoop(p, ids) ==
    IF p.spin = "" /\ peekTokenIs(p, COMMA)
    THEN identifierLoop(nextToken(nextToken(p)),
                        Append(ids, Identifier(nextToken(nextToken(p)).cur)))
    ELSE [p |-> p, ids |-> ids]

\* the end of parseFunctionParameters, r what the loop left
parametersEnd(r) ==
    LET x == expectPeek(r.p, RPAREN)
    IN  IF ~x.ok THEN [p |-> x.p, ids |-> <<>>, isNil |-> TRUE]
        ELSE [p |-> x.p, ids |-> r.ids, isNil |-> FALSE]

\* ids is the slice returned, isNil whether it is the nil slice
parseFunctionParameters(p) ==
    IF peekTokenIs(p, RPAREN)
    THEN [p |-> nextToken(p), ids |-> <<>>, isNil |-> FALSE]
    ELSE parametersEnd(identifierLoop(nextToken(p),
                                      <<Identifier(nextToken(p).cur)>>))

functionNode(tok, ps, body) ==
    [p |-> body.p,
     e |-> [node |-> "FunctionLiteral", Token |-> tok, Parameters |-> ps.ids,
            Body |-> body.e]]

\* parseFunctionLiteral after the parameters ps
functionBody(tok, ps) ==
    LET x == expectPeek(ps.p, LBRACE)
    IN  IF ~x.ok THEN Absent(x.p)
        ELSE functionNode(tok, ps, parseBlockStatement(x.p))

parseFunctionLiteral(p) ==
    LET x1 == expectPeek(p, LPAREN)
    IN  IF ~x1.ok THEN Absent(x1.p)
        ELSE functionBody(p.cur, parseFunctionParameters(x1.p))

\* for p.peekTokenIs(token.COMMA) in parseCallArguments: r.p the parser,
\* r.e the argument parsed last, args those before it
argumentLoop(r, args) ==
    IF r.p.spin = "" /\ peekTokenIs(r.p, COMMA)
    THEN argumentLoop(parseExpression(nextToken(nextToken(r.p)), LOWEST),
                      Append(args, r.e))
    ELSE [p |-> r.p, args |-> Append(args, r.e)]

\* the end of parseCallArguments, r what the loop left
argumentsEnd(r) ==
    LET x == expectPeek(r.p, RPAREN)
    IN  [p |-> x.p, args |-> IF x.ok THEN r.args ELSE <<>>]

parseCallArguments(p) ==
    IF peekTokenIs(p, RPAREN) THEN [p |-> nextToken(p), args |-> <<>>]
    ELSE argumentsEnd(argumentLoop(parseExpression(nextToken(p), LOWEST), <<>>))

callNode(tok, function, r) ==
    [p |-> r.p,
     e |-> [node |-> "CallExpression", Token |-> tok, Function |-> function,
            Arguments |-> r.args]]

parseCallExpression(p, function) ==
    callNode(p.cur, function, parseCallArguments(p))

\* prefix := p.prefixParseFns[p.curToken.Type]; prefix()
prefixParseFn(p) ==
    CASE p.cur.Type = IDENT -> parseIdentifier(p)
      [] p.cur.Type = INT -> parseIntegerLiteral(p)
      [] p.cur.Type \in {BANG, MINUS} -> parsePrefixExpression(p)
      [] p.cur.Type \in {TRUE_, FALSE_} -> parseBoolean(p)
      [] p.cur.Type = LPAREN -> parseGroupedExpression(p)
      [] p.cur.Type = IF_ -> parseIfExpression(p)
      [] p.cur.Type = FUNCTION -> parseFunctionLiteral(p)

\* infix := p.infixParseFns[p.peekToken.Type]; infix(leftExp), entered
\* after the advance onto the operator
infixParseFn(p, left) ==
    IF p.cur.Type = LPAREN THEN parseCallExpression(p, left)
    ELSE parseInfixExpression(p, left)

\* the for loop of parseExpression: r.p the parser, r.e leftExp
\* the loop steps over a `;` and goes on
infixLoop_ThroughSemicolon(r, precedence) ==
    IF r.p.spin = "" /\ peekTokenIs(r.p, SEMICOLON)
    THEN infixLoop([p |-> nextToken(r.p), e |-> r.e], precedence)
    ELSE IF r.p.spin = "" /\ precedence < peekPrecedence(r.p)
    THEN IF r.p.peek.Type \notin infixParseFns
         THEN r
         ELSE infixLoop(infixParseFn(nextToken(r.p), r.e), precedence)
    ELSE r

infixLoop(r, precedence) ==
    IF r.p.spin = "" /\ ~peekTokenIs(r.p, SEMICOLON)
                     /\ precedence < peekPrecedence(r.p)
    THEN IF r.p.peek.Type \notin infixParseFns
         THEN r
         ELSE infixLoop(infixParseFn(nextToken(r.p), r.e), precedence)
    ELSE r

parseExpression(p, precedence) ==
    IF p.cur.Type \notin prefixParseFns
    THEN Absent(noPrefixParseFnError(p, p.cur.Type))
    ELSE infixLoop(prefixParseFn(p), precedence)

(***************************************************************************)
(* src/object/object.go, src/evaluator/evaluator.go                        *)
(*                                                                         *)
(* ref tells which object a value is: the three shared objects TRUE,       *)
(* FALSE and NULL, or one allocated by the evaluation ("new").  A Go       *)
(* run-time panic is the outcome GoPanic; a nil Object is GoNil.           *)
(***************************************************************************)
INTEGER_OBJ == "INTEGER"
BOOLEAN_OBJ == "BOOLEAN"
NULL_OBJ == "NULL"
ERROR_OBJ == "ERROR"

NULL == [Type |-> NULL_OBJ, ref |-> "NULL"]
TRUE_VALUE == [Type |-> BOOLEAN_OBJ, Value |-> TRUE, ref |-> "TRUE"]
FALSE_VALUE == [Type |-> BOOLEAN_OBJ, Value |-> FALSE, ref |-> "FALSE"]
Integer(v) == [Type |-> INTEGER_OBJ, Value |-> v, ref |-> "new"]
Error(msg) == [Type |-> ERROR_OBJ, Message |-> msg, ref |-> "new"]
GoNil == [Type |-> "nil"]
GoPanic(why) == [Type |-> "panic", Message |-> why]
IsPanic(o) == o.Type = "panic"

\* a Boolean allocated at every call
nativeBooleanObject_Fresh(b) == [Type |-> BOOLEAN_OBJ, Value |-> b, ref |-> "new"]

nativeBooleanObject(b) == IF b THEN TRUE_VALUE ELSE FALSE_VALUE

\* the quotient rounded toward minus infinity
GoQuotient_Floored(a, b) ==
    LET absA == IF a < 0 THEN -a ELSE a
        absB == IF b < 0 THEN -b ELSE b
        q == absA \div absB
    IN  IF (a < 0) = (b < 0) THEN q
        ELSE IF q * absB = absA THEN -q
        ELSE -q - 1

\* Go's integer division, truncated toward zero (b # 0)
GoQuotient(a, b) ==
    LET absA == IF a < 0 THEN -a ELSE a
        absB == IF b < 0 THEN -b ELSE b
        q == absA \div absB
    IN  IF (a < 0) = (b < 0) THEN q ELSE -q

\* ! that takes Integer 0 for false
evalBangOperatorExpression_ZeroFalsy(right) ==
    CASE right = TRUE_VALUE -> FALSE_VALUE
      [] right = FALSE_VALUE -> TRUE_VALUE
      [] right = NULL -> TRUE_VALUE
      [] right = Integer(0) -> TRUE_VALUE
      [] OTHER -> FALSE_VALUE

evalBangOperatorExpression(right) ==
    CASE right = TRUE_VALUE -> FALSE_VALUE
      [] right = FALSE_VALUE -> TRUE_VALUE
      [] right = NULL -> TRUE_VALUE
      [] OTHER -> FALSE_VALUE

\* right.Type() on a nil Object is a nil dereference
evalMinusPrefixOperatorExpression(right) ==
    IF right = GoNil THEN GoPanic("nil pointer dereference")
    ELSE IF right.Type # INTEGER_OBJ THEN NULL
    ELSE Integer(-right.Value)

evalPlusPrefixOperatorExpression(right) ==
    IF right = GoNil THEN GoPanic("nil pointer dereference")
    ELSE IF right.Type # INTEGER_OBJ THEN NULL
    ELSE Integer(right.Value)

evalPrefixExpression(operator, right) ==
    CASE operator = "!" -> evalBangOperatorExpression(right)
      [] operator = "-" -> evalMinusPrefixOperatorExpression(right)
      [] operator = "+" -> evalPlusPrefixOperatorExpression(right)
      [] OTHER -> NULL

\* left.(*object.Integer) and right.(*object.Integer) are unchecked type
\* assertions
evalIntegerInfixExpression(operator, left, right) ==
    IF left.Type # INTEGER_OBJ \/ right.Type # INTEGER_OBJ
    THEN GoPanic("interface conversion: object.Object is not *object.Integer")
    ELSE CASE operator = "+" -> Integer(left.Value + right.Value)
           [] operator = "-" -> Integer(left.Value - right.Value)
           [] operator = "*" -> Integer(left.Value * right.Value)
           [] operator = "/" ->
                IF right.Value = 0 THEN GoPanic("integer divide by zero")
                ELSE Integer(GoQuotient(left.Value, right.Value))
           [] OTHER -> NULL

\* a panic while an operand was evaluated ends the evaluation
prefixOf(operator, right) ==
    IF IsPanic(right) THEN right ELSE evalPrefixExpression(operator, right)

infixOf(operator, left, right) ==
    IF IsPanic(left) THEN left
    ELSE IF IsPanic(right) THEN right
    ELSE evalIntegerInfixExpression(operator, left, right)

RECURSIVE Eval(_)
RECURSIVE evalStatementsFrom(_, _)

\* the loop of evalStatements; a panic ends the whole evaluation
evalStatementsFrom(stms, res) ==
    IF stms = <<>> \/ IsPanic(res) THEN res
    ELSE evalStatementsFrom(Tail(stms), Eval(Head(stms)))

evalStatements(stms) == evalStatementsFrom(stms, GoNil)

\* Eval on every node but *ast.Program, which is evalStatements
Eval(n) ==
    CASE n.node = "ExpressionStatement" -> Eval(n.Expression)
      [] n.node = "IntegerLiteral" -> Integer(n.Value)
      [] n.node = "Boolean" -> nativeBooleanObject(n.Value)
      [] n.node = "PrefixExpression" -> prefixOf(n.Operator, Eval(n.Right))
      [] n.node = "InfixExpression" ->
            infixOf(n.Operator, Eval(n.Left), Eval(n.Right))
      [] OTHER -> GoNil

(***************************************************************************)
(* The lexer driven on its own: a fresh lexer on any short source text,    *)
(* NextToken called again and again.                                       *)
(***************************************************************************)
\* NUL, space, '!', '1', '=', 'a' and the non-ASCII byte 0xE3
LexAlphabet == {0, 32, 33, 49, 59, 61, 97, 227}

RECURSIVE SeqsUpTo(_, _)
SeqsUpTo(S, n) ==
    IF n = 0 THEN {<<>>}
    ELSE LET shorter == SeqsUpTo(S, n - 1)
         IN  shorter \cup {Append(s, x) : s \in shorter, x \in S}

NotEvaluated == [Type |-> "none"]

\* object.NewEnvironment: a fresh Environment with an empty store; ref tells
\* one allocation from another
NewEnvironment(ref) == [ref |-> ref, store |-> {}]

\* no environment allocated
NoEnvironment == [ref |-> 0, store |-> {}]

\* Get has not been called
NoLookup == [name |-> "", obj |-> GoNil, ok |-> FALSE]

\* repl.Start not running
ReplIdle ==
    /\ scanner = <<>>
    /\ out = <<>>
    /\ env = NoEnvironment
    /\ handled = <<>>
    /\ environments = <<>>
    /\ got = NoLookup

\* the parser and the evaluator, not running
ParserIdle ==
    /\ tokens = <<>>
    /\ lpos = 0
    /\ curToken = Token(EOF, "")
    /\ peekToken = Token(EOF, "")
    /\ errors = <<>>
    /\ statements = <<>>
    /\ pc = "idle"
    /\ result = NotEvaluated

LexInit ==
    /\ input \in SeqsUpTo(LexAlphabet, MaxInputLen)
    /\ position = New(input).position
    /\ readPosition = New(input).readPosition
    /\ ch = New(input).ch
    /\ emitted = <<>>
    /\ ParserIdle
    /\ ReplIdle

LexNextToken ==
    /\ Len(emitted) < Len(input) + ExtraCalls
    /\ LET r == NextToken(Lexer)
       IN  /\ position' = r.l.position
           /\ readPosition' = r.l.readPosition
           /\ ch' = r.l.ch
           /\ emitted' = Append(emitted, r.tok)
    /\ UNCHANGED <<input, parserVars, result, replVars, envVars>>

LexNext == LexNextToken

LexSpec == LexInit /\ [][LexNext]_vars

(***************************************************************************)
(* The pipeline on a token stream: parser.New, ParseProgram one statement  *)
(* at a time, then Eval on the Program when no error was recorded          *)
(* (repl.Start).                                                           *)
(***************************************************************************)
tIdent(name) == Token(IDENT, name)
tInt(digits) == Token(INT, digits)
tLet == Token(LET_, "let")
tReturn == Token(RETURN, "return")
tTrue == Token(TRUE_, "true")
tFalse == Token(FALSE_, "false")
tIf == Token(IF_, "if")
tElse == Token(ELSE_, "else")
tFn == Token(FUNCTION, "fn")
\* a token whose literal is its kind: operators and delimiters
tOp(kind) == Token(kind, kind)

BinaryOperators == {EQ, NOT_EQ, LT, GT, PLUS, MINUS, ASTERISK, SLASH}
PrefixOperators == {MINUS, BANG}

\* an operand, bare or under one prefix operator
PrefixedOperands ==
    {<<tIdent("a")>>} \cup {<<tOp(o), tIdent("a")>> : o \in PrefixOperators}

\* operator expressions with at most n binary operators
RECURSIVE OperatorExpressions(_)
OperatorExpressions(n) ==
    IF n = 0 THEN PrefixedOperands
    ELSE LET shorter == OperatorExpressions(n - 1)
         IN  shorter \cup {e \o <<tOp(o)>> \o x :
                             e \in shorter, o \in BinaryOperators,
                             x \in PrefixedOperands}

\* expressions over literals and an unbound name, to evaluate
EvalOperands == {tInt("5"), tInt("0"), tTrue, tFalse, tIdent("a")}
EvalExpressions ==
    {<<x>> : x \in EvalOperands}
        \cup {<<tOp(o), x>> : o \in PrefixOperators, x \in EvalOperands}
        \cup {<<x, tOp(o), y>> : x \in EvalOperands, o \in BinaryOperators,
                                 y \in EvalOperands}

\* any short run of the tokens statements are made of
StatementTokens ==
    {tLet, tReturn, tIdent("x"), tOp(ASSIGN), tInt("5"), tOp(SEMICOLON)}

\* let NAME = INTEGER;
LetSource(name, digits) ==
    <<tLet, tIdent(name), tOp(ASSIGN), tInt(digits), tOp(SEMICOLON)>>

RECURSIVE LetPrograms(_)
LetPrograms(k) ==
    IF k = 0 THEN {<<>>}
    ELSE LET shorter == LetPrograms(k - 1)
         IN  shorter \cup {ts \o LetSource(name, digits) :
                             ts \in shorter, name \in {"x", "y"},
                             digits \in {"5", "10"}}

\* -a * b
SrcMinusATimesB == <<tOp(MINUS), tIdent("a"), tOp(ASTERISK), tIdent("b")>>
\* a + b * c + d / e - f
SrcLongSum ==
    <<tIdent("a"), tOp(PLUS), tIdent("b"), tOp(ASTERISK), tIdent("c"), tOp(PLUS),
      tIdent("d"), tOp(SLASH), tIdent("e"), tOp(MINUS), tIdent("f")>>
\* 5 > 4 == 3 < 4
SrcComparisons ==
    <<tInt("5"), tOp(GT), tInt("4"), tOp(EQ), tInt("3"), tOp(LT), tInt("4")>>
\* let x 5;
SrcLetNoAssign == <<tLet, tIdent("x"), tInt("5"), tOp(SEMICOLON)>>
\* let x = 5 + a;
SrcLetSum ==
    <<tLet, tIdent("x"), tOp(ASSIGN), tInt("5"), tOp(PLUS), tIdent("a"),
      tOp(SEMICOLON)>>
\* if (a) { let x = 5 }
SrcIfLet ==
    <<tIf, tOp(LPAREN), tIdent("a"), tOp(RPAREN), tOp(LBRACE), tLet, tIdent("x"),
      tOp(ASSIGN), tInt("5"), tOp(RBRACE)>>
\* if (a < 5) { a } else { 5 }; fn(x, y) { x + y; }; a(5, x)
SrcIfElse ==
    <<tIf, tOp(LPAREN), tIdent("a"), tOp(LT), tInt("5"), tOp(RPAREN), tOp(LBRACE),
      tIdent("a"), tOp(RBRACE), tElse, tOp(LBRACE), tInt("5"), tOp(RBRACE)>>
SrcFunction ==
    <<tFn, tOp(LPAREN), tIdent("x"), tOp(COMMA), tIdent("y"), tOp(RPAREN),
      tOp(LBRACE), tIdent("x"), tOp(PLUS), tIdent("y"), tOp(SEMICOLON),
      tOp(RBRACE)>>
SrcCall ==
    <<tIdent("a"), tOp(LPAREN), tInt("5"), tOp(COMMA), tIdent("x"), tOp(RPAREN)>>

\* return 10; 5
SrcReturnThen == <<tReturn, tInt("10"), tOp(SEMICOLON), tInt("5")>>
\* if (10 > 1) { if (10 > 1) { return 10; } return 1; }
SrcNestedReturn ==
    <<tIf, tOp(LPAREN), tInt("10"), tOp(GT), tInt("1"), tOp(RPAREN), tOp(LBRACE),
      tIf, tOp(LPAREN), tInt("10"), tOp(GT), tInt("1"), tOp(RPAREN), tOp(LBRACE),
      tReturn, tInt("10"), tOp(SEMICOLON), tOp(RBRACE),
      tReturn, tInt("1"), tOp(SEMICOLON), tOp(RBRACE)>>

\* 3 + 4; -5 * 5
SrcTwoStatements ==
    <<tInt("3"), tOp(PLUS), tInt("4"), tOp(SEMICOLON),
      tOp(MINUS), tInt("5"), tOp(ASTERISK), tInt("5")>>
\* fn(1, 2) { }
SrcFunctionOfIntegers ==
    <<tFn, tOp(LPAREN), tInt("1"), tOp(COMMA), tInt("2"), tOp(RPAREN),
      tOp(LBRACE), tOp(RBRACE)>>
\* fn(x, ) { }
SrcFunctionTrailingComma ==
    <<tFn, tOp(LPAREN), tIdent("x"), tOp(COMMA), tOp(RPAREN),
      tOp(LBRACE), tOp(RBRACE)>>
\* if (-a < b) { x }
SrcIfPrefixInfix ==
    <<tIf, tOp(LPAREN), tOp(MINUS), tIdent("a"), tOp(LT), tIdent("b"), tOp(RPAREN),
      tOp(LBRACE), tIdent("x"), tOp(RBRACE)>>

Scenarios ==
    {SrcMinusATimesB, SrcLongSum, SrcComparisons, SrcLetNoAssign, SrcLetSum,
     SrcIfLet, SrcIfElse, SrcFunction, SrcCall, SrcReturnThen, SrcNestedReturn,
     SrcTwoStatements, SrcFunctionOfIntegers, SrcFunctionTrailingComma,
     SrcIfPrefixInfix}

\* let x = VALUE; x for a literal VALUE
ValueTokens == {tInt("5"), tInt("10"), tTrue, tFalse}
LetThenUseSources ==
    {<<tLet, tIdent("x"), tOp(ASSIGN), v, tOp(SEMICOLON), tIdent("x")>> :
        v \in ValueTokens}

\* the decimal digit of n in 0..9
DigitString(n) == SubSeq("0123456789", n + 1, n + 1)

\* an integer literal, bare or negated
Signs == {<<>>, <<tOp(MINUS)>>}
\* A / B for signed one-digit A and B, B not zero
DivisionSources ==
    {sa \o <<tInt(DigitString(a)), tOp(SLASH)>> \o sb \o <<tInt(DigitString(b))>> :
        sa \in Signs, a \in 0..MaxOperand, sb \in Signs, b \in 1..MaxOperand}

\* two prefix operators on a literal
PrefixChains ==
    {<<tOp(o1), tOp(o2), x>> :
        o1 \in PrefixOperators, o2 \in PrefixOperators,
        x \in {tInt("5"), tInt("0"), tTrue, tFalse}}

\* digit runs, with and without leading zeros
IntegerSources == {<<tInt(d)>> : d \in {"7", "10", "010", "007", "08"}}

Sources ==
    OperatorExpressions(MaxBinOps) \cup EvalExpressions
        \cup SeqsUpTo(StatementTokens, MaxStmtToks) \cup LetPrograms(MaxLets)
        \cup Scenarios \cup LetThenUseSources \cup DivisionSources
        \cup PrefixChains \cup IntegerSources

\* the lexer of the first part, not running
LexerIdle ==
    /\ input = <<>>
    /\ position = 0
    /\ readPosition = 0
    /\ ch = 0
    /\ emitted = <<>>

\* parser.New: the two nextToken calls that fill the window
NewParser ==
    nextToken(nextToken([cur |-> Token("", ""), peek |-> Token("", ""),
                         lpos |-> 0, errors |-> <<>>, spin |-> ""]))

\* a parser constructed on one of the given sources
InitOn(sources) ==
    /\ LexerIdle
    /\ tokens \in sources
    /\ curToken = NewParser.cur
    /\ peekToken = NewParser.peek
    /\ lpos = NewParser.lpos
    /\ errors = <<>>
    /\ statements = <<>>
    /\ pc = "ParseProgram"
    /\ result = NotEvaluated
    /\ ReplIdle

Init == InitOn(Sources)

\* the rest of a turn of the loop of ParseProgram, r what parseStatement
\* returned: the statement is appended and the window advanced; a statement
\* whose skipping loop cannot end leaves the parser in that loop
StatementParsed(r) ==
    IF r.p.spin # ""
    THEN /\ pc' = r.p.spin
         /\ curToken' = r.p.cur
         /\ peekToken' = r.p.peek
         /\ lpos' = r.p.lpos
         /\ errors' = r.p.errors
         /\ UNCHANGED statements
    ELSE /\ pc' = pc
         /\ curToken' = nextToken(r.p).cur
         /\ peekToken' = nextToken(r.p).peek
         /\ lpos' = nextToken(r.p).lpos
         /\ errors' = r.p.errors
         /\ statements' = IF r.s # NilNode THEN Append(statements, r.s)
                          ELSE statements

\* one turn of the loop of ParseProgram
ParseProgramStatement ==
    /\ pc = "ParseProgram"
    /\ curToken.Type # EOF
    /\ \E r \in {parseStatement(Parser)} : StatementParsed(r)
    /\ UNCHANGED <<lexVars, tokens, result, replVars, envVars>>

\* ParseProgram returns the Program
ParseProgramReturn ==
    /\ pc = "ParseProgram"
    /\ curToken.Type = EOF
    /\ pc' = "done"
    /\ UNCHANGED <<lexVars, tokens, lpos, curToken, peekToken, errors, statements,
                   result, replVars, envVars>>

\* one turn of for !p.curTokenIs(token.SEMICOLON) { p.nextToken() } in
\* parseLetStatement or parseReturnStatement
SkipToSemicolon ==
    /\ pc \in {"letSkip", "returnSkip"}
    /\ ~curTokenIs(Parser, SEMICOLON)
    /\ LET after == nextToken(Parser)
       IN  /\ curToken' = after.cur
           /\ peekToken' = after.peek
           /\ lpos' = after.lpos
    /\ UNCHANGED <<lexVars, tokens, errors, statements, pc, result, replVars, envVars>>

\* repl.Start: the Program is evaluated when the parser recorded no error
EvalProgram ==
    /\ pc = "done"
    /\ Len(errors) = 0
    /\ result' = evalStatements(statements)
    /\ pc' = "evaluated"
    /\ UNCHANGED <<lexVars, tokens, lpos, curToken, peekToken, errors, statements,
                   replVars, envVars>>

Next ==
    \/ ParseProgramStatement
    \/ ParseProgramReturn
    \/ SkipToSemicolon
    \/ EvalProgram

Spec == Init /\ [][Next]_vars

\* ParseProgram and Eval run on one goroutine that is never suspended for
\* ever: a step that can be taken is taken
FairInit == InitOn(SeqsUpTo(StatementTokens, MaxFairToks))

FairSpec == FairInit /\ [][Next]_vars /\ WF_vars(Next)

\* the index of the first EOF token among those returned, 0 if none
FirstEOF ==
    IF \E i \in 1..Len(emitted) : emitted[i].Type = EOF
    THEN CHOOSE i \in 1..Len(emitted) :
            /\ emitted[i].Type = EOF
            /\ \A j \in 1..(i - 1) : emitted[j].Type # EOF
    ELSE 0

RECURSIVE ConcatLiterals(_)
ConcatLiterals(ts) ==
    IF ts = <<>> THEN <<>> ELSE Head(ts).Literal \o ConcatLiterals(Tail(ts))

RECURSIVE StripWhitespace(_)
StripWhitespace(s) ==
    IF s = <<>> THEN <<>>
    ELSE IF Head(s) \in {32, 9, 10, 13} THEN StripWhitespace(Tail(s))
    ELSE <<Head(s)>> \o StripWhitespace(Tail(s))

\* C3: on an input of n bytes, one of the first n+1 NextToken calls of a
\* fresh lexer returns EOF.
C3_EOFWithinLenPlusOne ==
    Len(emitted) >= Len(input) + 1
        => \E i \in 1..(Len(input) + 1) : emitted[i].Type = EOF

\* all n+1 calls were needed: n tokens of one byte each, then EOF
C3_Witness ==
    /\ Len(input) >= 3
    /\ Len(emitted) = Len(input) + 1
    /\ \A i \in 1..Len(input) : emitted[i].Type # EOF
    /\ emitted[Len(input) + 1].Type = EOF

\* C4: the literals of the tokens returned before EOF, concatenated in
\* order, are the input without its whitespace bytes.
C4_LiteralsRebuildInput ==
    FirstEOF > 0
        => ConcatLiterals(SubSeq(emitted, 1, FirstEOF - 1)) = StripWhitespace(input)

TokenKinds ==
    {ILLEGAL, EOF, IDENT, INT, STRING_, ASSIGN, PLUS, MINUS, BANG, ASTERISK,
     SLASH, EQ, NOT_EQ, LT, GT, COMMA, SEMICOLON, LPAREN, RPAREN, LBRACE, RBRACE,
     FUNCTION, LET_, TRUE_, FALSE_, IF_, ELSE_, RETURN}

\* C1: Eval on a Program parsed without error returns; it never panics.
C1_EvalNeverPanics == pc = "evaluated" => ~IsPanic(result)

\* C2: ParseProgram terminates: on every source the parser comes to return
\* the Program.
C2_ParseProgramTerminates == <>(pc \in {"done", "evaluated"})

\* the tokens of an expression tree, left to right
RECURSIVE Flatten(_)
Flatten(e) ==
    CASE e.node = "InfixExpression" ->
            Flatten(e.Left) \o <<e.Token>> \o Flatten(e.Right)
      [] e.node = "PrefixExpression" -> <<e.Token>> \o Flatten(e.Right)
      [] OTHER -> <<e.Token>>

\* every binary operator of the tree has, to its right, only operators that
\* bind tighter and, to its left, only operators that bind at least as
\* tight; the operand of a prefix operator holds no binary operator at
\* its top
RECURSIVE GroupedByPrecedence(_)
GroupedByPrecedence(e) ==
    CASE e.node = "InfixExpression" ->
            /\ e.Left.node = "InfixExpression"
                  => precedences(e.Left.Token.Type) >= precedences(e.Token.Type)
            /\ e.Right.node = "InfixExpression"
                  => precedences(e.Right.Token.Type) > precedences(e.Token.Type)
            /\ GroupedByPrecedence(e.Left)
            /\ GroupedByPrecedence(e.Right)
      [] e.node = "PrefixExpression" ->
            /\ e.Right.node # "InfixExpression"
            /\ GroupedByPrecedence(e.Right)
      [] OTHER -> e.node \in {"Identifier", "IntegerLiteral"}

OperatorSources ==
    OperatorExpressions(MaxBinOps)
        \cup {SrcMinusATimesB, SrcLongSum, SrcComparisons}

\* C5: an expression of identifiers, integers, binary and prefix operators
\* parses to the one tree over its tokens that groups by precedence, to the
\* left among equals, prefix operators tightest; it renders fully
\* parenthesised.
C5_PrecedenceGrouping ==
    (pc = "done" /\ tokens \in OperatorSources)
        => /\ errors = <<>>
           /\ Len(statements) = 1
           /\ statements[1].node = "ExpressionStatement"
           /\ Flatten(statements[1].Expression) = tokens
           /\ GroupedByPrecedence(statements[1].Expression)
           /\ tokens = SrcMinusATimesB
                 => ProgramString(statements) = "((-a) * b)"
           /\ tokens = SrcLongSum
                 => ProgramString(statements) = "(((a + (b * c)) + (d / e)) - f)"
           /\ tokens = SrcComparisons
                 => ProgramString(statements) = "((5 > 4) == (3 < 4))"

C5_Witness ==
    /\ pc = "done"
    /\ tokens = SrcLongSum
    /\ ProgramString(statements) = "(((a + (b * c)) + (d / e)) - f)"

\* the sources made of let NAME = INTEGER; statements, one at least
LetSources == LetPrograms(MaxLets) \ {<<>>}

\* the i-th NAME / INTEGER of such a source
NameOf(i) == tokens[5 * (i - 1) + 2].Literal
IntegerOf(i) == tokens[5 * (i - 1) + 4].Literal

\* C6: the Let statement parsed from let NAME = EXPR; holds the expression
\* as its value and renders as let NAME = EXPR;.
C6_LetHoldsValue ==
    (pc = "done" /\ tokens \in LetSources)
        => \A i \in 1..Len(statements) :
              /\ ~StringPanics(statements[i])
              /\ statements[i].Value # NilNode
              /\ String(statements[i])
                    = "let " \o NameOf(i) \o " = " \o IntegerOf(i) \o ";"

\* C7: k statements let NAME = INTEGER; parse without error to k Let
\* statements, the i-th of token literal let and of the i-th name.
C7_LetStatements ==
    (pc = "done" /\ tokens \in LetPrograms(MaxLets))
        => /\ errors = <<>>
           /\ Len(statements) * 5 = Len(tokens)
           /\ \A i \in 1..Len(statements) :
                 /\ statements[i].node = "LetStatement"
                 /\ ~statements[i].nilptr
                 /\ statements[i].Token.Literal = "let"
                 /\ statements[i].Name.Value = NameOf(i)
                 /\ statements[i].Name.Token.Literal = NameOf(i)

C7_Witness ==
    /\ pc = "done"
    /\ tokens = LetSource("x", "5") \o LetSource("y", "10")
    /\ Len(statements) = 2
    /\ statements[1].Name.Value = "x"
    /\ statements[2].Name.Value = "y"

\* C8: every element of the Program's statement list is a present
\* statement; a statement that failed to parse is not in the list.
C8_OnlyPresentStatements ==
    \A i \in 1..Len(statements) :
        statements[i] # NilNode /\ ~statements[i].nilptr

\* what expectPeek(t) does to the parser as it is now
ExpectPeekAdvances(t) ==
    LET r == expectPeek(Parser, t)
    IN  /\ r.ok
        /\ r.p.cur = peekToken
        /\ r.p.peek = LexerToken(lpos)
        /\ r.p.errors = errors

ExpectPeekRecords(t) ==
    LET r == expectPeek(Parser, t)
    IN  /\ ~r.ok
        /\ r.p.cur = curToken
        /\ r.p.peek = peekToken
        /\ r.p.lpos = lpos
        /\ r.p.errors
              = Append(errors, "expected next token to be " \o t \o ", got "
                                   \o peekToken.Type \o " instead")

\* C9: expectPeek(kind) on a peek token of that kind advances the window
\* by one token, adds no error and returns true; on any other peek token it
\* appends the one message, leaves the window alone and returns false.
C9_ExpectPeek ==
    /\ \A t \in TokenKinds :
          IF peekToken.Type = t THEN ExpectPeekAdvances(t)
          ELSE ExpectPeekRecords(t)
    /\ (pc = "done" /\ tokens = SrcLetNoAssign)
          => errors = <<"expected next token to be =, got INT instead">>

C9_Witness ==
    /\ pc = "done"
    /\ tokens = SrcLetNoAssign
    /\ errors = <<"expected next token to be =, got INT instead">>

\* the type name of the value a literal token evaluates to
LiteralType(tok) == IF tok.Type = INT THEN INTEGER_OBJ ELSE BOOLEAN_OBJ

\* C10: an infix expression over operands of different types evaluates to
\* the Error type mismatch: LTYPE OP RTYPE.
C10_TypeMismatchError ==
    (/\ pc = "evaluated"
     /\ Len(tokens) = 3
     /\ tokens[1].Type \in {INT, TRUE_, FALSE_}
     /\ tokens[3].Type \in {INT, TRUE_, FALSE_}
     /\ LiteralType(tokens[1]) # LiteralType(tokens[3]))
        => result = Error("type mismatch: " \o LiteralType(tokens[1]) \o " "
                              \o tokens[2].Literal \o " "
                              \o LiteralType(tokens[3]))

\* C11: the first statement that yields a ReturnValue ends the evaluation
\* and its inner value is the result, out of nested blocks too: return 10; 5
\* and the nested if of the example both evaluate to Integer 10.
C11_ReturnEndsEvaluation ==
    (pc = "evaluated" /\ tokens \in {SrcReturnThen, SrcNestedReturn})
        => result.Type = INTEGER_OBJ /\ result.Value = 10

\* the value the literal token v evaluates to as a program of its own
DirectValue(v) ==
    Eval(prefixParseFn([cur |-> v, peek |-> Token(EOF, ""), lpos |-> 1,
                        errors |-> <<>>, spin |-> ""]).e)

\* C12: let x = VALUE; x evaluates to what VALUE evaluates to.
C12_LetThenUse ==
    (pc = "evaluated" /\ tokens \in LetThenUseSources)
        => result = DirectValue(tokens[4])

\* the Boolean or Integer the operator gives on the integers a and b
IntegerResult(operator, a, b) ==
    CASE operator = LT -> nativeBooleanObject(a < b)
      [] operator = GT -> nativeBooleanObject(a > b)
      [] operator = EQ -> nativeBooleanObject(a = b)
      [] operator = NOT_EQ -> nativeBooleanObject(a # b)
      [] operator = PLUS -> Integer(a + b)
      [] operator = MINUS -> Integer(a - b)
      [] operator = ASTERISK -> Integer(a * b)
      [] operator = SLASH -> Integer(GoQuotient(a, b))

\* C13: on two Integers < > == != give the Boolean of the comparison and
\* + - * / the Integer result, never NULL (division by zero set aside).
C13_IntegerOperators ==
    (/\ pc = "evaluated"
     /\ Len(tokens) = 3
     /\ tokens[1].Type = INT
     /\ tokens[3].Type = INT
     /\ tokens[2].Type \in BinaryOperators
     /\ ~(tokens[2].Type = SLASH /\ ParseInt(tokens[3].Literal).value = 0))
        => /\ result # NULL
           /\ result = IntegerResult(tokens[2].Type,
                                     ParseInt(tokens[1].Literal).value,
                                     ParseInt(tokens[3].Literal).value)

\* the integer a parsed operand stands for: a literal, bare or negated
SignedValue(e) ==
    IF e.node = "PrefixExpression" THEN -e.Right.Value ELSE e.Value

Abs(n) == IF n < 0 THEN -n ELSE n

\* q is a / b truncated toward zero: the remainder is smaller than b in
\* magnitude and is zero or of the sign of a
TruncatedQuotient(q, a, b) ==
    LET r == a - q * b
    IN  /\ Abs(r) < Abs(b)
        /\ r = 0 \/ (r < 0) = (a < 0)

\* C14: a / b on Integers, b not zero, is the quotient truncated toward
\* zero for every combination of signs.
C14_DivisionTruncates ==
    (pc = "evaluated" /\ tokens \in DivisionSources)
        => /\ result.Type = INTEGER_OBJ
           /\ TruncatedQuotient(result.Value,
                                SignedValue(statements[1].Expression.Left),
                                SignedValue(statements[1].Expression.Right))

C14_Witness ==
    /\ pc = "evaluated"
    /\ tokens = <<tOp(MINUS), tInt("7"), tOp(SLASH), tInt("2")>>
    /\ SignedValue(statements[1].Expression.Left) = -7
    /\ result = Integer(-3)

\* what ! gives on the value v
BangValue(v) ==
    IF v = TRUE_VALUE THEN FALSE_VALUE
    ELSE IF v = FALSE_VALUE \/ v = NULL THEN TRUE_VALUE
    ELSE FALSE_VALUE

\* the program is one expression statement, a prefix expression of the
\* given operator
IsPrefixProgram(operator) ==
    /\ Len(statements) = 1
    /\ statements[1].node = "ExpressionStatement"
    /\ statements[1].Expression.node = "PrefixExpression"
    /\ statements[1].Expression.Operator = operator

\* C15: ! gives FALSE on TRUE, TRUE on FALSE and on NULL, FALSE on every
\* other value, Integer 0 included; !!b is b for a Boolean b.
C15_BangOperator ==
    (pc = "evaluated" /\ IsPrefixProgram("!"))
        => LET right == Eval(statements[1].Expression.Right)
           IN  /\ (~IsPanic(right) /\ right # GoNil) => result = BangValue(right)
               /\ tokens = <<tOp(BANG), tOp(BANG), tTrue>> => result = TRUE_VALUE
               /\ tokens = <<tOp(BANG), tOp(BANG), tFalse>> => result = FALSE_VALUE
               /\ tokens = <<tOp(BANG), tInt("0")>> => result = FALSE_VALUE

\* !-true: the operand evaluates to NULL
C15_Witness ==
    /\ pc = "evaluated"
    /\ tokens = <<tOp(BANG), tOp(MINUS), tTrue>>
    /\ Eval(statements[1].Expression.Right) = NULL
    /\ result = TRUE_VALUE

\* C16: prefix - on Integer n gives Integer -n, on any other operand the
\* Error unknown operator: -TYPE.
C16_MinusOperator ==
    (/\ pc = "evaluated"
     /\ Len(tokens) = 2
     /\ tokens[1].Type = MINUS
     /\ tokens[2].Type \in {INT, TRUE_, FALSE_})
        => IF tokens[2].Type = INT
           THEN result = Integer(-ParseInt(tokens[2].Literal).value)
           ELSE result = Error("unknown operator: -" \o BOOLEAN_OBJ)

\* a Boolean value is one of the two shared objects
IsShared(v) == v.Type = BOOLEAN_OBJ => v \in {TRUE_VALUE, FALSE_VALUE}

\* every value Eval returns while it evaluates the node, for the node and
\* for the operands it evaluates on the way, is shared if a Boolean
RECURSIVE BooleansShared(_)
BooleansShared(n) ==
    /\ IsShared(Eval(n))
    /\ CASE n.node = "ExpressionStatement" -> BooleansShared(n.Expression)
         [] n.node = "PrefixExpression" -> BooleansShared(n.Right)
         [] n.node = "InfixExpression" ->
               BooleansShared(n.Left) /\ BooleansShared(n.Right)
         [] OTHER -> TRUE

\* C17: every Boolean Eval returns is the shared TRUE or the shared FALSE.
C17_BooleanSingletons ==
    pc = "evaluated"
        => /\ IsShared(result)
           /\ \A i \in 1..Len(statements) : BooleansShared(statements[i])

C17_Witness ==
    /\ pc = "evaluated"
    /\ tokens = <<tTrue>>
    /\ result.Type = BOOLEAN_OBJ
    /\ result.ref = "TRUE"

\* C19: the Value of an IntegerLiteral is the decimal value of the digit
\* run of its token, leading zeros or not.
C19_IntegerLiteralValue ==
    (pc = "done" /\ tokens \in IntegerSources /\ errors = <<>>)
        => /\ statements[1].Expression.node = "IntegerLiteral"
           /\ statements[1].Expression.Token.Literal = tokens[1].Literal
           /\ statements[1].Expression.Value
                 = DigitsValue(tokens[1].Literal, 10, 0)

\* whether the byte after the first one is '='
AssignFollows == Len(input) >= 2 /\ input[2] = 61

\* C20: = followed by = is one EQ token ==, ! followed by = one NOT_EQ
\* token !=; otherwise = is ASSIGN and ! is BANG.
C20_TwoCharacterOperators ==
    (Len(emitted) >= 1 /\ Len(input) >= 1)
        => /\ input[1] = 61
                 => emitted[1] = IF AssignFollows THEN Token(EQ, <<61, 61>>)
                                 ELSE Token(ASSIGN, <<61>>)
           /\ input[1] = 33
                 => emitted[1] = IF AssignFollows THEN Token(NOT_EQ, <<33, 61>>)
                                 ELSE Token(BANG, <<33>>)

(***************************************************************************)
(* Rendering and parsing again: an expression tree is rendered by String,  *)
(* the text is lexed and the parser runs on the tokens.  The text is kept  *)
(* in input.  The lexer here is the one the parser reads from, which       *)
(* knows all the operators and the keywords of src/token/token.go.         *)
(***************************************************************************)
Letters ==
    {"a", "b", "c", "d", "e", "f", "g", "h", "i", "j", "k", "l", "m", "n", "o",
     "p", "q", "r", "s", "t", "u", "v", "w", "x", "y", "z", "_"}
Digits == {"0", "1", "2", "3", "4", "5", "6", "7", "8", "9"}
OneCharTokens ==
    {ASSIGN, PLUS, MINUS, BANG, ASTERISK, SLASH, LT, GT, COMMA, SEMICOLON,
     LPAREN, RPAREN, LBRACE, RBRACE}

\* token.LookupIdent with the keywords of the full token package
TokenLookupIdent(ident) ==
    CASE ident = "fn" -> FUNCTION
      [] ident = "let" -> LET_
      [] ident = "true" -> TRUE_
      [] ident = "false" -> FALSE_
      [] ident = "if" -> IF_
      [] ident = "else" -> ELSE_
      [] ident = "return" -> RETURN
      [] OTHER -> IDENT

CharAt(s, i) == SubSeq(s, i, i)

\* the last position of the run of characters of class that starts at i
RECURSIVE RunEnd(_, _, _)
RunEnd(s, i, class) ==
    IF i < Len(s) /\ CharAt(s, i + 1) \in class THEN RunEnd(s, i + 1, class)
    ELSE i

\* the tokens before EOF of the text s from position i on
RECURSIVE LexFrom(_, _)
LexFrom(s, i) ==
    IF i > Len(s) THEN <<>>
    ELSE IF CharAt(s, i) \in {" ", "\t", "\n", "\r"} THEN LexFrom(s, i + 1)
    ELSE IF CharAt(s, i) \in {"=", "!"} /\ i < Len(s) /\ CharAt(s, i + 1) = "="
    THEN <<Token(SubSeq(s, i, i + 1), SubSeq(s, i, i + 1))>> \o LexFrom(s, i + 2)
    ELSE IF CharAt(s, i) \in OneCharTokens
    THEN <<Token(CharAt(s, i), CharAt(s, i))>> \o LexFrom(s, i + 1)
    ELSE IF CharAt(s, i) \in Letters
    THEN <<Token(TokenLookupIdent(SubSeq(s, i, RunEnd(s, i, Letters))),
                 SubSeq(s, i, RunEnd(s, i, Letters)))>>
             \o LexFrom(s, RunEnd(s, i, Letters) + 1)
    ELSE IF CharAt(s, i) \in Digits
    THEN <<Token(INT, SubSeq(s, i, RunEnd(s, i, Digits)))>>
             \o LexFrom(s, RunEnd(s, i, Digits) + 1)
    ELSE <<Token(ILLEGAL, CharAt(s, i))>> \o LexFrom(s, i + 1)

LexString(s) == LexFrom(s, 1)

\* expression trees as the parser builds them
IntegerLiteral(digits) ==
    [node |-> "IntegerLiteral", Token |-> tInt(digits),
     Value |-> ParseInt(digits).value]
Boolean(tok) == [node |-> "Boolean", Token |-> tok, Value |-> tok = tTrue]
PrefixExpression(o, right) ==
    [node |-> "PrefixExpression", Token |-> tOp(o), Operator |-> o,
     Right |-> right]
InfixExpression(left, o, right) ==
    [node |-> "InfixExpression", Token |-> tOp(o), Left |-> left,
     Operator |-> o, Right |-> right]
\* a block of one expression statement
BlockStatement(e) ==
    [node |-> "BlockStatement", Token |-> tOp(LBRACE),
     Statements |-> <<ExpressionStatement(e.Token, e)>>]
FunctionLiteral(ids, body) ==
    [node |-> "FunctionLiteral", Token |-> tFn, Parameters |-> ids,
     Body |-> body]

AtomExpressions ==
    {Identifier(tIdent("a")), IntegerLiteral("5"), Boolean(tTrue)}
RoundTripOperators == {PLUS, ASTERISK, LT, EQ}
ParameterLists ==
    {<<>>, <<Identifier(tIdent("x"))>>,
     <<Identifier(tIdent("x")), Identifier(tIdent("y"))>>}

\* well-formed expressions nested at most d deep: identifiers, literals,
\* prefix and infix expressions, if with and without else, functions
RECURSIVE WellFormedExpressions(_)
WellFormedExpressions(d) ==
    IF d = 0 THEN AtomExpressions
    ELSE LET sub == WellFormedExpressions(d - 1)
         IN  sub
             \cup {PrefixExpression(o, e) : o \in PrefixOperators, e \in sub}
             \cup {InfixExpression(l, o, r) :
                     l \in sub, o \in RoundTripOperators, r \in AtomExpressions}
             \cup {InfixExpression(l, o, r) :
                     l \in AtomExpressions, o \in RoundTripOperators, r \in sub}
             \cup {IfExpression(tIf, c, BlockStatement(e), NilNode) :
                     c \in sub, e \in AtomExpressions}
             \cup {IfExpression(tIf, c, BlockStatement(e), BlockStatement(f)) :
                     c \in sub, e \in AtomExpressions, f \in AtomExpressions}
             \cup {FunctionLiteral(ids, BlockStatement(e)) :
                     ids \in ParameterLists, e \in sub}

\* a parser constructed on the lexer of the rendering of an expression
RoundTripInit ==
    /\ \E ast \in WellFormedExpressions(MaxAstDepth) : input = String(ast)
    /\ position = 0
    /\ readPosition = 0
    /\ ch = 0
    /\ emitted = <<>>
    /\ tokens = LexString(input)
    /\ curToken = NewParser.cur
    /\ peekToken = NewParser.peek
    /\ lpos = NewParser.lpos
    /\ errors = <<>>
    /\ statements = <<>>
    /\ pc = "ParseProgram"
    /\ result = NotEvaluated
    /\ ReplIdle

RoundTripNext ==
    \/ ParseProgramStatement
    \/ ParseProgramReturn

RoundTripSpec == RoundTripInit /\ [][RoundTripNext]_vars

\* C18: the rendering of a well-formed expression parses without error to
\* a Program that renders to the same text.
C18_RenderParseRender ==
    pc = "done"
        => /\ errors = <<>>
           /\ \A i \in 1..Len(statements) : ~StringPanics(statements[i])
           /\ ProgramString(statements) = input

(***************************************************************************)
(* lexer/lexer.go on runs of letters and digits                            *)
(***************************************************************************)
\* the bytes of the words the language reserves besides fn and let
WordTrue == <<116, 114, 117, 101>>
WordFalse == <<102, 97, 108, 115, 101>>
WordIf == <<105, 102>>
WordElse == <<101, 108, 115, 101>>
WordReturn == <<114, 101, 116, 117, 114, 110>>

ReservedWords ==
    {KeywordFn, KeywordLet, WordTrue, WordFalse, WordIf, WordElse, WordReturn}

\* the kind the language gives a run of letters
ReservedKind(run) ==
    CASE run = KeywordFn -> FUNCTION
      [] run = KeywordLet -> LET_
      [] run = WordTrue -> TRUE_
      [] run = WordFalse -> FALSE_
      [] run = WordIf -> IF_
      [] run = WordElse -> ELSE_
      [] run = WordReturn -> RETURN
      [] OTHER -> IDENT

\* a reserved word, a reserved word followed by x, or a plain name
LetterRuns ==
    ReservedWords \cup {w \o <<120>> : w \in ReservedWords} \cup {<<120>>, <<95>>}

\* what follows the run: nothing, `;`, or ` 5;`
RunTails == {<<>>, <<59>>, <<32, 53, 59>>}

RunInputs == {r \o t : r \in LetterRuns, t \in RunTails}

RunInit ==
    /\ input \in RunInputs
    /\ position = New(input).position
    /\ readPosition = New(input).readPosition
    /\ ch = New(input).ch
    /\ emitted = <<>>
    /\ ParserIdle
    /\ ReplIdle

RunSpec == RunInit /\ [][LexNext]_vars

\* the maximal run of letters and underscores the input begins with
RECURSIVE LeadingRun(_)
LeadingRun(s) ==
    IF s # <<>> /\ isLetter(Head(s))
    THEN <<Head(s)>> \o LeadingRun(Tail(s))
    ELSE <<>>

\* C21: a maximal run of letters and underscores is emitted with a reserved
\* kind exactly when the whole run is one of fn, let, true, false, if, else,
\* return; every other run is IDENT; the literal is the run's text.
C21_ReservedWords ==
    Len(emitted) >= 1
        => emitted[1] = Token(ReservedKind(LeadingRun(input)), LeadingRun(input))

(***************************************************************************)
(* repl.Start                                                              *)
(***************************************************************************)
MaxReplLines == 2

MONKEY_FACE ==
    "            __,__\n"
    \o "   .--.  .-\"     \"-.  .--.\n"
    \o "  / .. \\/  .-. .-.  \\/ .. \\\n"
    \o " | |  '|  /   Y   \\  |'  | |\n"
    \o " | \\   \\  \\ 0 | 0 /  /   / |\n"
    \o "  \\ '- ,\\.-\"\"\"\"\"\"\"-./, -' /\n"
    \o "   ''-' /_   ^ ^   _\\ '-''\n"
    \o "       |  \\._   _./  |\n"
    \o "       \\   \\ '~' /   /\n"
    \o "        '._ '-=-' _.'\n"
    \o "           '-----'\n"

\* the loop of printParserErrors: one write per message
tabbed(errs) == [i \in 1..Len(errs) |-> "\t" \o errs[i] \o "\n"]

printParserErrors(o, errs) ==
    o \o <<MONKEY_FACE, "Woops! We ran into some monkey business here!\n",
           " parser errors:\n">> \o tabbed(errs)

\* fmt.Sprintf("%d", n) of a number that is not negative
RECURSIVE Sprintf_d(_)
Sprintf_d(n) ==
    IF n < 10 THEN DigitString(n) ELSE Sprintf_d(n \div 10) \o DigitString(n % 10)

Inspect(obj) ==
    CASE obj.Type = INTEGER_OBJ ->
            IF obj.Value < 0 THEN "-" \o Sprintf_d(0 - obj.Value)
            ELSE Sprintf_d(obj.Value)
      [] obj.Type = BOOLEAN_OBJ -> IF obj.Value THEN "true" ELSE "false"
      [] obj.Type = NULL_OBJ -> "null"
      [] obj.Type = ERROR_OBJ -> "ERROR: " \o obj.Message

\* the lines typed: 5;  let 5  return 5  -a  a
ReplLines ==
    { <<tInt("5"), tOp(SEMICOLON)>>,
      <<tLet, tInt("5")>>,
      <<tReturn, tInt("5")>>,
      <<tOp(MINUS), tIdent("a")>>,
      <<tIdent("a")>> }

\* Start has created its scanner and its environment and is at the prompt
ReplInit ==
    /\ LexerIdle
    /\ tokens = <<>>
    /\ lpos = 0
    /\ curToken = Token(EOF, "")
    /\ peekToken = Token(EOF, "")
    /\ errors = <<>>
    /\ statements = <<>>
    /\ pc = "prompt"
    /\ result = NotEvaluated
    /\ scanner \in SeqsUpTo(ReplLines, MaxReplLines)
    /\ out = <<>>
    /\ env = NewEnvironment(1)
    /\ handled = <<>>
    /\ environments = <<env>>
    /\ got = NoLookup

\* scanner.Scan() returned true: l := lexer.New(line)
ReplScan ==
    /\ pc = "prompt"
    /\ scanner # <<>>
    /\ tokens' = Head(scanner)
    /\ scanner' = Tail(scanner)
    /\ pc' = "New"
    /\ UNCHANGED <<lexVars, lpos, curToken, peekToken, errors, statements, result,
                   out, env, handled, envVars>>

\* p := parser.New(l)
ReplNewParser ==
    /\ pc = "New"
    /\ curToken' = NewParser.cur
    /\ peekToken' = NewParser.peek
    /\ lpos' = NewParser.lpos
    /\ errors' = <<>>
    /\ statements' = <<>>
    /\ pc' = "ParseProgram"
    /\ UNCHANGED <<lexVars, tokens, result, replVars, envVars>>

\* len(p.Errors()) != 0: the errors are printed and the loop continues
ReplPrintParserErrors ==
    /\ pc = "done"
    /\ Len(errors) # 0
    /\ out' = printParserErrors(out, errors)
    /\ handled' = Append(handled, [did |-> "printParserErrors", env |-> 0])
    /\ pc' = "prompt"
    /\ UNCHANGED <<lexVars, tokens, lpos, curToken, peekToken, errors, statements,
                   result, scanner, env, envVars>>

\* the rest of a turn of the loop, evaluated what Eval returned; a panic
\* ends the process
ReplEvaluated(evaluated) ==
    /\ result' = evaluated
    /\ handled' = Append(handled, [did |-> "Eval", env |-> env.ref])
    /\ pc' = IF IsPanic(evaluated) THEN "panic" ELSE "prompt"
    /\ out' = IF IsPanic(evaluated) \/ evaluated = GoNil THEN out
              ELSE out \o <<Inspect(evaluated), "\n">>

\* evaluated := evaluator.Eval(program, env)
ReplEval ==
    /\ pc = "done"
    /\ Len(errors) = 0
    /\ \E evaluated \in {evalStatements(statements)} : ReplEvaluated(evaluated)
    /\ UNCHANGED <<lexVars, tokens, lpos, curToken, peekToken, errors, statements,
                   scanner, env, envVars>>

\* scanner.Scan() returned false
ReplReturn ==
    /\ pc = "prompt"
    /\ scanner = <<>>
    /\ pc' = "return"
    /\ UNCHANGED <<lexVars, tokens, lpos, curToken, peekToken, errors, statements,
                   result, replVars, envVars>>

ReplNext ==
    \/ ReplScan
    \/ ReplNewParser
    \/ ParseProgramStatement
    \/ ParseProgramReturn
    \/ SkipToSemicolon
    \/ ReplPrintParserErrors
    \/ ReplEval
    \/ ReplReturn

\* Start runs on one goroutine that is never suspended for ever
ReplSpec == ReplInit /\ [][ReplNext]_vars /\ WF_vars(ReplNext)

\* what the driver does with a parsed line: with an error recorded it writes
\* the errors, each after a tab, and does not evaluate; with none it
\* evaluates against the environment created at the start
HandlesParsedLine ==
    pc = "done" /\ pc' # "done"
        => IF Len(errors) # 0
           THEN /\ handled' = Append(handled, [did |-> "printParserErrors", env |-> 0])
                /\ Len(out') = Len(out) + 3 + Len(errors)
                /\ \A i \in 1..Len(errors) :
                      out'[Len(out) + 3 + i] = "\t" \o errors[i] \o "\n"
                /\ result' = result
           ELSE handled' = Append(handled, [did |-> "Eval", env |-> 1])

\* C22: for every input line the driver does exactly one of two things: it
\* writes the parser's errors, each after a tab, and does not evaluate, or,
\* with no error recorded, it evaluates the program against the one
\* environment created when the driver started, which stays the one in use.
C22_DriverPerLine ==
    /\ [][ /\ HandlesParsedLine
           /\ env' = env
           /\ handled' # handled => pc = "done" ]_vars
    /\ \A n \in 0..MaxReplLines :
          (pc = "New" /\ Len(handled) = n) ~> (Len(handled) = n + 1)

(***************************************************************************)
(* object/environment.go                                                   *)
(***************************************************************************)
MaxFrames == 2

\* the store is a map: a set of <<name, value>> with one value a name
bound(e, name) == \E b \in e.store : b[1] = name

\* obj, ok := e.store[name]
Get(e, name) ==
    IF bound(e, name)
    THEN [obj |-> (CHOOSE b \in e.store : b[1] = name)[2], ok |-> TRUE]
    ELSE [obj |-> GoNil, ok |-> FALSE]

\* e.store[name] = val
Set(e, name, val) ==
    [e EXCEPT !.store = {b \in e.store : b[1] # name} \cup {<<name, val>>}]

EnvNames == {"x", "y"}
EnvValues == {Integer(5), TRUE_VALUE}

\* the environment of the program, then one more for every call in progress;
\* the last is the innermost
EnvInit ==
    /\ LexerIdle
    /\ ParserIdle
    /\ scanner = <<>>
    /\ out = <<>>
    /\ env = NewEnvironment(1)
    /\ handled = <<>>
    /\ environments = <<env>>
    /\ got = NoLookup

\* NewEnvironment() for the next frame
EnvNew ==
    /\ Len(environments) < MaxFrames
    /\ environments' = Append(environments, NewEnvironment(Len(environments) + 1))
    /\ UNCHANGED <<lexVars, parserVars, result, replVars, got>>

\* Set on the innermost frame
EnvSet ==
    /\ \E name \in EnvNames, val \in EnvValues :
          environments' = [environments EXCEPT ![Len(environments)] =
                              Set(@, name, val)]
    /\ UNCHANGED <<lexVars, parserVars, result, replVars, got>>

\* Get on the innermost frame
EnvGet ==
    /\ \E name \in EnvNames :
          got' = [name |-> name,
                  obj |-> Get(environments[Len(environments)], name).obj,
                  ok |-> Get(environments[Len(environments)], name).ok]
    /\ UNCHANGED <<lexVars, parserVars, result, replVars, environments>>

EnvNext ==
    \/ EnvNew
    \/ EnvSet
    \/ EnvGet

EnvSpec == EnvInit /\ [][EnvNext]_vars

\* the binding of name in the nearest frame that has one, innermost last
RECURSIVE NearestBinding(_, _)
NearestBinding(frames, name) ==
    IF frames = <<>> THEN [obj |-> GoNil, ok |-> FALSE]
    ELSE IF bound(frames[Len(frames)], name)
         THEN [obj |-> (CHOOSE b \in frames[Len(frames)].store : b[1] = name)[2],
               ok |-> TRUE]
         ELSE NearestBinding(SubSeq(frames, 1, Len(frames) - 1), name)

\* C23: a lookup of a name that the innermost frame does not bind walks the
\* parent chain and returns the nearest enclosing binding; a write binds in
\* the innermost frame and leaves every parent frame unchanged.
C23_EnvironmentChain ==
    [][ /\ got' # got
            => [obj |-> got'.obj, ok |-> got'.ok]
                   = NearestBinding(environments', got'.name)
        /\ \A i \in 1..(Len(environments) - 1) : environments'[i] = environments[i]
      ]_vars

(***************************************************************************)
(* parseExpression on a token with no prefix function                      *)
(***************************************************************************)
Precedences == {LOWEST, EQUALS, LESSGREATER, SUM, PRODUCT, PREFIX, CALL}

\* parseExpression entered in the state at hand: one error appended, no
\* expression, the window where it was
NoPrefixOutcome(r) ==
    /\ r.e = NilNode
    /\ r.p.errors = Append(errors, "no prefix parse function for "
                                       \o curToken.Type \o " found")
    /\ r.p.cur = curToken
    /\ r.p.peek = peekToken
    /\ r.p.lpos = lpos

\* C24: parseExpression entered on a current token whose kind has no prefix
\* function appends exactly one error "no prefix parse function for <kind>
\* found", yields no expression and does not advance the window.
C24_NoPrefixParseFn ==
    (pc = "ParseProgram" /\ curToken.Type \notin prefixParseFns)
        => \A precedence \in Precedences :
              NoPrefixOutcome(parseExpression(Parser, precedence))

\* ParseProgram returned after an expression statement began with `=`
C24_Witness ==
    /\ pc = "done"
    /\ tokens = <<tOp(ASSIGN)>>
    /\ errors = <<"no prefix parse function for = found">>
    /\ Len(statements) = 1
    /\ statements[1].Expression = NilNode

(***************************************************************************)
(* where NextToken leaves the lexer                                        *)
(***************************************************************************)
\* the byte at offset i of the input, 0 past its end
ByteAt(i) == IF i < Len(input) THEN input[i + 1] ELSE 0

\* the offset of the first byte at or after i that is not whitespace
RECURSIVE FirstNonSpace(_)
FirstNonSpace(i) ==
    IF ByteAt(i) \in {32, 9, 10, 13} THEN FirstNonSpace(i + 1) ELSE i

\* the token the step returned begins at offset start
LeftAfter(tok, start) ==
    IF tok.Type \in {IDENT, FUNCTION, LET_, INT}
    THEN /\ tok.Literal = SubSeq(input, start + 1, start + Len(tok.Literal))
         /\ position' = start + Len(tok.Literal)
         /\ ch' = ByteAt(position')
         /\ IF tok.Type = INT THEN ~isDigit(ch') ELSE ~isLetter(ch')
    ELSE tok.Type # EOF
            => /\ position' = start + 1
               /\ ch' = ByteAt(position')

\* C25: after NextToken returns an identifier, keyword or INT token the
\* current character is the first one after the token's run, so the
\* character that follows is not skipped; after every other token but EOF
\* exactly one character has been consumed.
C25_LexerLeftAfterToken ==
    [][ emitted' # emitted
            => LeftAfter(emitted'[Len(emitted')], FirstNonSpace(position)) ]_vars

\* 1; gave INT 1 and then SEMICOLON
C25_Witness ==
    /\ input = <<49, 59>>
    /\ Len(emitted) = 2
    /\ emitted[1] = Token(INT, <<49>>)
    /\ emitted[2] = Token(SEMICOLON, <<59>>)

\* C28: once NextToken has returned an EOF token, every later call on the
\* same lexer returns EOF with an empty literal: no other token is produced
\* after an EOF.
C28_EOFForEver ==
    \A i \in 1..Len(emitted) :
        emitted[i].Type = EOF
            => \A j \in (i + 1)..Len(emitted) : emitted[j] = Token(EOF, <<>>)

(***************************************************************************)
(* `;` ends an expression                                                  *)
(***************************************************************************)
\* the loop of parseExpression entered in the state at hand with the current
\* token as the left expression
AtSemicolon == [p |-> Parser, e |-> Identifier(curToken)]

\* C26: parseExpression does not consume a `;`: with `;` as the peek token
\* the infix loop stops whatever the precedence asked for, so the tokens
\* after the `;` start a new statement: 3 + 4; -5 * 5 is two statements
\* that render as (3 + 4)((-5) * 5).
C26_SemicolonEndsExpression ==
    /\ (pc = "ParseProgram" /\ peekToken.Type = SEMICOLON)
          => \A precedence \in Precedences :
                infixLoop(AtSemicolon, precedence) = AtSemicolon
    /\ (pc = "done" /\ tokens = SrcTwoStatements)
          => /\ errors = <<>>
             /\ Len(statements) = 2
             /\ ProgramString(statements) = "(3 + 4)((-5) * 5)"

C26_Witness ==
    /\ pc = "done"
    /\ tokens = SrcTwoStatements
    /\ Len(statements) = 2
    /\ statements[2].Expression.node = "InfixExpression"
    /\ statements[2].Expression.Left.node = "PrefixExpression"

(***************************************************************************)
(* the nodes of a tree                                                     *)
(***************************************************************************)
RECURSIVE Subtree(_)
RECURSIVE SeqSubtree(_)

\* the node n and every node below it
Subtree(n) ==
    {n} \cup
    CASE n.node = "LetStatement" ->
            IF n.nilptr THEN {} ELSE Subtree(n.Name) \cup Subtree(n.Value)
      [] n.node = "ReturnStatement" -> Subtree(n.ReturnValue)
      [] n.node = "ExpressionStatement" -> Subtree(n.Expression)
      [] n.node = "PrefixExpression" -> Subtree(n.Right)
      [] n.node = "InfixExpression" -> Subtree(n.Left) \cup Subtree(n.Right)
      [] n.node = "IfExpression" ->
            Subtree(n.Condition) \cup Subtree(n.Consequence)
                \cup Subtree(n.Alternative)
      [] n.node = "BlockStatement" -> SeqSubtree(n.Statements)
      [] n.node = "FunctionLiteral" ->
            SeqSubtree(n.Parameters) \cup Subtree(n.Body)
      [] n.node = "CallExpression" ->
            Subtree(n.Function) \cup SeqSubtree(n.Arguments)
      [] OTHER -> {}

SeqSubtree(ss) ==
    IF ss = <<>> THEN {} ELSE Subtree(Head(ss)) \cup SeqSubtree(Tail(ss))

\* C27: every parameter of a FunctionLiteral is an identifier: a parameter
\* list with a token that is not IDENT records a parse error, and a program
\* returned without errors has no Identifier node built from such a token.
C27_ParametersAreIdentifiers ==
    (pc = "done" /\ errors = <<>>)
        => \A n \in SeqSubtree(statements) :
              n.node = "FunctionLiteral"
                  => \A i \in 1..Len(n.Parameters) :
                        n.Parameters[i].Token.Type = IDENT

(***************************************************************************)
(* the window of two tokens                                                *)
(***************************************************************************)
\* every token of the stream has been taken and the current token is one of
\* the EOF tokens that follow the stream
PastTheEnd == lpos = Len(tokens) + 1 /\ curToken = Token(EOF, "")

\* the peek token is the last token taken from the lexer and the current
\* token the one taken before it
WindowInOrder ==
    /\ peekToken = LexerToken(lpos - 1)
    /\ PastTheEnd \/ (lpos >= 2 /\ curToken = LexerToken(lpos - 2))

\* the window changes only by advancing: the tokens taken grow by the
\* advances made, and the new current token is not one from before the old
WindowOnlyAdvances ==
    (curToken' # curToken \/ peekToken' # peekToken)
        => /\ lpos' >= lpos
           /\ lpos' > lpos \/ lpos = Len(tokens) + 1

\* C29: at every point after the parser's construction the peek token is
\* the token the lexer produced right after the current token: the parser
\* takes the lexer's tokens strictly in order, one per advance, never
\* skipping, re-reading or reordering one, and only advancing changes the
\* window.
C29_TokenWindow ==
    /\ [](pc \in {"ParseProgram", "letSkip", "returnSkip", "done"} => WindowInOrder)
    /\ [][WindowOnlyAdvances]_vars

\* ParseProgram returned after taking every token of a + b * c + d / e - f
C29_Witness ==
    /\ pc = "done"
    /\ tokens = SrcLongSum
    /\ lpos = Len(tokens) + 1
    /\ errors = <<>>
    /\ WindowInOrder

(***************************************************************************)
(* operands of a program parsed without errors                             *)
(***************************************************************************)
\* the operands the node cannot be rendered without are there
OperandsPresent(n) ==
    CASE n.node = "PrefixExpression" -> n.Right # NilNode
      [] n.node = "InfixExpression" -> n.Left # NilNode /\ n.Right # NilNode
      [] n.node = "IfExpression" ->
            n.Condition # NilNode /\ n.Consequence # NilNode
      [] OTHER -> TRUE

====
